---- MODULE Spec2Model ----
(***************************************************************************)
(* A model of src/src/idb.ts (class Idb and the store/index handles): the  *)
(* request scheduler and schema-migration coordinator of one database      *)
(* handle, running on a single-threaded event loop above an IndexedDB      *)
(* storage engine.                                                         *)
(*                                                                         *)
(* Granularity.  One action is one run-to-completion segment of the event  *)
(* loop: a synchronous call of the caller, the flush microtask, or one     *)
(* engine event (open success / error, upgradeneeded, request success /    *)
(* error, transaction complete) together with all the promise              *)
(* continuations that event triggers.  Microtasks run before the next      *)
(* engine event, so engine events wait while a flush microtask is queued.  *)
(***************************************************************************)
EXTENDS Naturals, Integers, Sequences, FiniteSets, TLC

(* ---- bounds of the model ---- *)
MaxCalls == 3          \* calls the caller makes on the handle, in total
MaxFaults == 1         \* session opens the engine refuses for its own reasons

StoreNames == {"s1", "s2"}
IndexNames == {"i1"}
MaxKey == 2            \* keys are the integers 1..MaxKey
Keys == 1..MaxKey
K1 == 1                \* the key the caller passes to get / put / add
NoVal == 0             \* no value stored under the key (get yields undefined)
Null == "null"         \* no error (the error of a request or transaction)
Kinds == {"get", "put", "add", "indexGet"}

VARIABLES
    upgReqs,            \* Idb.upgReqs: ledger of collection intents
    upgIReqs,           \* Idb.upgIReqs: ledger of index intents, in push order
    reqs,               \* Idb.reqs: operation queue (ids into ops)
    isCommitRequested,  \* Idb.isCommitRequested
    lead,               \* the operation whose requestToCommit call awaits the flush
    ops,                \* every operation issued: its future and where its closure ran
    passes,             \* every call of Idb.commit and where it stands
    txs,                \* every data transaction opened by processReqs
    openQ,              \* the engine's queue of pending open requests (pass ids)
    version,            \* engine: stored version of the database
    stores,             \* engine: names of the object stores
    indexes,            \* engine: <<store, index>> pairs that exist
    data,               \* engine: committed-or-in-transaction contents per store
    faults,             \* number of opens the engine has refused
    inBurst,            \* the caller is inside a synchronous burst
    burstNo,            \* number of bursts the caller has started
    ncalls,             \* number of calls made so far
    declared,           \* stores for which the caller holds a store handle
    clean,              \* every declaration so far named something that existed
    h2                  \* a second handle for the same database name

vars == <<upgReqs, upgIReqs, reqs, isCommitRequested, lead, ops, passes, txs,
          openQ, version, stores, indexes, data, faults, inBurst, burstNo,
          ncalls, declared, clean, h2>>

Range(s) == {s[i] : i \in DOMAIN s}

EmptyData == [s \in StoreNames |-> [k \in Keys |-> NoVal]]

(* The part of the state the library code and the engine work on, as one   *)
(* record, so that the code's call chains compose as operators.            *)
World == [upgReqs |-> upgReqs, upgIReqs |-> upgIReqs, reqs |-> reqs,
          isCommitRequested |-> isCommitRequested, lead |-> lead, ops |-> ops,
          passes |-> passes, txs |-> txs, openQ |-> openQ,
          version |-> version, stores |-> stores, indexes |-> indexes,
          data |-> data, faults |-> faults, self |-> 1]

(* the same with the fields of the second handle in place of the first's *)
World2 == [upgReqs |-> h2.upgReqs, upgIReqs |-> h2.upgIReqs, reqs |-> h2.reqs,
           isCommitRequested |-> h2.isCommitRequested, lead |-> h2.lead,
           ops |-> ops, passes |-> passes, txs |-> txs, openQ |-> openQ,
           version |-> version, stores |-> stores, indexes |-> indexes,
           data |-> data, faults |-> faults, self |-> 2,
           declared |-> h2.declared]

Becomes(w) ==
    /\ IF w.self = 1
       THEN /\ upgReqs' = w.upgReqs
            /\ upgIReqs' = w.upgIReqs
            /\ reqs' = w.reqs
            /\ isCommitRequested' = w.isCommitRequested
            /\ lead' = w.lead
            /\ h2' = h2
       ELSE /\ h2' = [made |-> TRUE, upgReqs |-> w.upgReqs,
                      upgIReqs |-> w.upgIReqs, reqs |-> w.reqs,
                      isCommitRequested |-> w.isCommitRequested,
                      lead |-> w.lead, declared |-> w.declared]
            /\ UNCHANGED <<upgReqs, upgIReqs, reqs, isCommitRequested, lead>>
    /\ ops' = w.ops
    /\ passes' = w.passes
    /\ txs' = w.txs
    /\ openQ' = w.openQ
    /\ version' = w.version
    /\ stores' = w.stores
    /\ indexes' = w.indexes
    /\ data' = w.data
    /\ faults' = w.faults

(* ---- the operation kinds of IdbStoreBase / IdbStore / IdbIndex ---- *)
(* openCursor and openKeyCursor, called on a store handle ("cursor",       *)
(* "cursorStop", "cursorIdle", "keyCursor") or on an index handle          *)
CursorKinds ==
    {"cursor", "cursorStop", "cursorIdle", "keyCursor", "indexCursor", "indexKeyCursor"}

(* the kinds called on an index handle *)
IndexKinds == {"indexGet", "indexCursor", "indexKeyCursor"}

(* a registerCursor that passes 'readonly' *)
ModeOfScansReadonly(kind) ==
    IF kind \in {"put", "add", "addAuto"} THEN "readwrite" ELSE "readonly"

ModeOf(kind) ==
    IF kind \in {"get", "indexGet", "count"} THEN "readonly" ELSE "readwrite"

(* a session that is closed as soon as the open request has succeeded *)
HoldsSessionNever(p) == FALSE

(* A pass holds an engine session from the success of its open request     *)
(* until Idb.open's finally block closes it.                               *)
HoldsSession(p) == p.pc \in {"chkTx", "data"}

SessionsOpen(w) == {p \in DOMAIN w.passes : HoldsSession(w.passes[p])}


(***************************************************************************)
(* Idb.commit and what it calls.                                           *)
(*                                                                         *)
(* A pass is one call of commit():                                         *)
(*   pc     "open"   an indexedDB.open request of the pass is pending      *)
(*          "chkTx"  the read-only transaction of isNeedToIUpg is running  *)
(*          "data"   the shared data transaction of processReqs is running *)
(*          "done" / "failed"   the promise of commit() is settled         *)
(*   stage  "chk"    first open of commit (necessity check)                *)
(*          "upg"    second open, with a version and an upgrade handler    *)
(*          "plain"  second open, without a version                        *)
(*   origin the operation whose register().catch handler hangs on the pass *)
(*          (0 for deleteObjectStore / deleteIndex)                        *)
(*   handle the handle whose commit() it is                                *)
(***************************************************************************)

(* commit() rejects: requestToCommit rejects and register's catch handler  *)
(* calls reject on the future of the operation that scheduled the flush.   *)
(* reject has no effect once the closure has run (the future is then       *)
(* resolved with the request's promise, or already rejected).              *)
Fail(w, p) ==
    LET o == w.passes[p].origin
        rejectLead == /\ o # 0
                      /\ w.ops[o].status = "pending"
                      /\ w.ops[o].ran = {}
    IN  [w EXCEPT !.passes[p].pc = "failed",
                  !.ops = IF rejectLead
                          THEN [@ EXCEPT ![o].status = "rejected",
                                         ![o].why = "pass"]
                          ELSE @]

Finish(w, p) == [w EXCEPT !.passes[p].pc = "done"]

(* Idb.open up to `await queryWrapper(req)`: the open request is queued.   *)
(* The pass counts the calls of indexedDB.open it has made (opens).        *)
open(w, p, stage, ver) ==
    [w EXCEPT !.passes[p].pc = "open",
              !.passes[p].stage = stage,
              !.passes[p].ver = ver,
              !.passes[p].opens = @ + 1,
              !.openQ = Append(@, p)]

(* commit(), second half: the session that runs the upgrade and / or the   *)
(* data step.  indexedDB.open(name, 0) throws a TypeError.                 *)
commitStage2(w, p, dbVersion) ==
    IF w.reqs # <<>> \/ w.upgReqs # <<>>
    THEN IF w.upgReqs # <<>>
         THEN IF dbVersion = 0 THEN Fail(w, p) ELSE open(w, p, "upg", dbVersion)
         ELSE open(w, p, "plain", 0)
    ELSE Finish(w, p)

(* processReqs has returned: the session is closed by Idb.open; the check  *)
(* session's callback returns 0 and commit goes on to its second half.     *)
AfterProcessReqs(w, p) ==
    IF w.passes[p].stage = "chk" THEN commitStage2(w, p, 0) ELSE Finish(w, p)

(* stores the caller declares with the option autoIncrement: true *)
AutoIncrement(name) == name = "s2"

(* The closure built by register: getTarget throws when the index of an    *)
(* index handle does not exist, and add without a key throws a DataError   *)
(* on a store that has no key generator.                                   *)
Throws(w, o) ==
    \/ /\ w.ops[o].kind \in IndexKinds
       /\ <<w.ops[o].store, w.ops[o].index>> \notin w.indexes
    \/ /\ w.ops[o].kind = "addAuto"
       /\ ~AutoIncrement(w.ops[o].store)

(* Closures of register as run by the loop of processReqs against          *)
(* transaction t: a closure that throws rejects its own future, the others *)
(* leave a request in the transaction.                                     *)
(* a loop that stops after the first entry *)
BatchFirstOnly(w) == <<Head(w.reqs)>>

(* a loop that starts with the entry pushed last *)
BatchLastFirst(w) ==
    <<w.reqs[Len(w.reqs)]>> \o SubSeq(w.reqs, 1, Len(w.reqs) - 1)

(* a loop that goes through the queue from its end *)
BatchReversed(w) == [i \in DOMAIN w.reqs |-> w.reqs[Len(w.reqs) + 1 - i]]

(* the entries the loop `for (const [, , fn] of this.reqs)` goes through *)
Batch(w) == w.reqs

RunClosures(w, t) ==
    [o \in DOMAIN w.ops |->
        IF o \in Range(Batch(w))
        THEN [w.ops[o] EXCEPT
                !.ran = @ \cup {t},
                !.status = IF Throws(w, o) /\ @ = "pending" THEN "rejected" ELSE @,
                !.why = IF Throws(w, o) /\ w.ops[o].status = "pending"
                        THEN "closure" ELSE @]
        ELSE w.ops[o]]

(* the queue is left as it was *)
KeepReqs(w) == w.reqs

(* `this.reqs = []` at the end of the transaction callback *)
ClearReqs(w) == <<>>

(* a scope taken from the first entry of the queue only *)
objectStoreNamesOfHead(w) == {w.ops[Head(w.reqs)].store}

(* `[...new Set(this.reqs.map(([name]) => name))]` *)
objectStoreNames(w) == {w.ops[w.reqs[i]].store : i \in DOMAIN w.reqs}

(* a transaction that is read-write whatever the entries ask for *)
modeAlwaysReadwrite(w) == "readwrite"

(* `this.reqs.every(([, mode]) => mode === 'readonly')` *)
mode(w) ==
    IF \A i \in DOMAIN w.reqs : ModeOf(w.ops[w.reqs[i]].kind) = "readonly"
    THEN "readonly" ELSE "readwrite"

(* the queued operations whose store is not in the database *)
MissingFor(w) == {o \in Range(w.reqs) : w.ops[o].store \notin w.stores}

(* Idb.processReqs with Idb.transaction: db.transaction throws a           *)
(* NotFoundError when a store of the scope does not exist; the pass then   *)
(* notes the operations whose store was missing.                           *)
processReqs(w, p) ==
    IF w.reqs = <<>> THEN AfterProcessReqs(w, p)
    ELSE
      LET t == Len(w.txs) + 1
      IN  IF ~(objectStoreNames(w) \subseteq w.stores)
          THEN [Fail(w, p) EXCEPT !.passes[p].missing = MissingFor(w)]
          ELSE [w EXCEPT
                  !.txs = Append(@, [scope |-> objectStoreNames(w),
                                     mode |-> mode(w),
                                     queue |-> SelectSeq(Batch(w), LAMBDA o : ~Throws(w, o)),
                                     state |-> "active",
                                     started |-> FALSE,
                                     snap |-> EmptyData,
                                     pass |-> p]),
                  !.ops = RunClosures(w, t),
                  !.reqs = ClearReqs(w),
                  !.passes[p].pc = "data",
                  !.passes[p].tx = t]

(* a check that forgets to look at the live schema for create intents *)
isNeedToUpgAnyCreate(w) ==
    \E i \in DOMAIN w.upgReqs :
        LET contains == w.upgReqs[i].name \in w.stores
        IN  \/ w.upgReqs[i].method = "create"
            \/ w.upgReqs[i].method = "delete" /\ contains

isNeedToUpg(w) ==
    \E i \in DOMAIN w.upgReqs :
        LET contains == w.upgReqs[i].name \in w.stores
        IN  \/ w.upgReqs[i].method = "create" /\ ~contains
            \/ w.upgReqs[i].method = "delete" /\ contains

(* Object.keys(this.upgIReqs) *)
targetObjectStoreNames(w) == {w.upgIReqs[i].store : i \in DOMAIN w.upgIReqs}

(* the callback of isNeedToIUpg *)
isNeedToIUpg(w) ==
    \E i \in DOMAIN w.upgIReqs :
        LET contains == <<w.upgIReqs[i].store, w.upgIReqs[i].name>> \in w.indexes
        IN  \/ w.upgIReqs[i].method = "create" /\ ~contains
            \/ w.upgIReqs[i].method = "delete" /\ contains

(* a target version that goes up by one for every intent of the ledger *)
commitCheckedPerIntent(w, p, need) ==
    IF need
    THEN commitStage2([w EXCEPT !.passes[p].found = "yes"], p,
                      w.version + Len(w.upgReqs) + Len(w.upgIReqs))
    ELSE processReqs([w EXCEPT !.upgReqs = <<>>, !.upgIReqs = <<>>,
                               !.passes[p].found = "no"], p)

(* commit(), the callback of the check session once the necessity is known *)
(* (found: what the check of the pass came to)                             *)
commitChecked(w, p, need) ==
    IF need THEN commitStage2([w EXCEPT !.passes[p].found = "yes"], p, w.version + 1)
    ELSE processReqs([w EXCEPT !.upgReqs = <<>>, !.upgIReqs = <<>>,
                               !.passes[p].found = "no"], p)

(* commit(), the callback of the check session when the session opens      *)
commitCheck(w, p) ==
    IF isNeedToUpg(w) THEN commitChecked(w, p, TRUE)
    ELSE IF targetObjectStoreNames(w) = {} THEN commitChecked(w, p, FALSE)
    ELSE IF ~(targetObjectStoreNames(w) \subseteq w.stores) THEN Fail(w, p)
    ELSE [w EXCEPT !.passes[p].pc = "chkTx",
                   !.passes[p].need = isNeedToIUpg(w)]

NewPass(origin, call) ==
    [pc |-> "new", stage |-> "chk", ver |-> 0, need |-> FALSE, tx |-> 0,
     origin |-> origin, call |-> call, handle |-> 1, missing |-> {},
     opens |-> 0, found |-> "none"]

(* commit(), from its call to its first await *)
commit(w, origin, call) ==
    LET p == Len(w.passes) + 1
        w1 == [w EXCEPT !.passes =
                  Append(@, [NewPass(origin, call) EXCEPT !.handle = w.self])]
    IN  IF w.upgReqs # <<>> THEN open(w1, p, "chk", 0)
        ELSE commitStage2(w1, p, 0)

(* a requestToCommit that looks at the flag before it pushes the entry *)
requestToCommitFlagFirst(w, o) ==
    IF w.isCommitRequested THEN w
    ELSE [w EXCEPT !.reqs = Append(@, o), !.isCommitRequested = TRUE,
                   !.lead = o, !.ops[o].waits = TRUE]

(* a requestToCommit that does not look at the flag *)
requestToCommitAlways(w, o) ==
    [w EXCEPT !.reqs = Append(@, o), !.isCommitRequested = TRUE, !.lead = o,
              !.ops[o].waits = TRUE]

(* requestToCommit up to `await Promise.resolve()`: the call that gets     *)
(* past the flag waits for the microtask (waits)                           *)
requestToCommit(w, o) ==
    LET w1 == [w EXCEPT !.reqs = Append(@, o)]
    IN  IF w.isCommitRequested THEN w1
        ELSE [w1 EXCEPT !.isCommitRequested = TRUE, !.lead = o,
                        !.ops[o].waits = TRUE]

(* IdbStoreBase.register for one of the operation kinds.  Besides the      *)
(* future (status, why) the record keeps what the properties refer to: the *)
(* transactions its closure ran in, the burst it was issued in, the        *)
(* operations already fulfilled when it was issued, whether the handle was *)
(* idle and a pass had failed at that time, the number of calls of commit  *)
(* made before it (npass), the value its future was fulfilled with         *)
(* (result) and the keys a cursor sequence has yielded (seen).             *)
register(w, kind, store, index, burst) ==
    LET o == Len(w.ops) + 1
        settled == {q \in DOMAIN w.ops : w.ops[q].status = "fulfilled"}
        idle == /\ ~w.isCommitRequested
                /\ \A p \in DOMAIN w.passes : w.passes[p].pc \in {"done", "failed"}
        rec == [kind |-> kind, store |-> store, index |-> index,
                burst |-> burst, status |-> "pending", why |-> "none",
                handle |-> w.self, result |-> 0, error |-> Null, seen |-> <<>>,
                npass |-> Len(w.passes), waits |-> FALSE,
                ran |-> {}, after |-> settled,
                idleAtIssue |-> idle,
                failedBefore |-> \E p \in DOMAIN w.passes : w.passes[p].pc = "failed"]
    IN  requestToCommit([w EXCEPT !.ops = Append(@, rec)], o)

RECURSIVE SetToSeq(_)
SetToSeq(S) ==
    IF S = {} THEN <<>>
    ELSE LET x == CHOOSE x \in S : TRUE IN <<x>> \o SetToSeq(S \ {x})

(* Idb.objectStore: pushes the intents and returns a store handle; it does *)
(* not call requestToCommit.  The call record of a deleteObjectStore(name) *)
(* whose promise is still pending notes that the caller has declared the   *)
(* store again since (`again`).                                            *)
objectStore(w, name, indices) ==
    LET idx == SetToSeq(indices)
    IN  [w EXCEPT
          !.passes = [p \in DOMAIN @ |->
                        IF /\ @[p].call.kind = "deleteObjectStore"
                           /\ @[p].call.store = name
                           /\ @[p].pc \notin {"done", "failed"}
                        THEN [@[p] EXCEPT !.call.again = TRUE]
                        ELSE @[p]],
          !.upgReqs = Append(@, [name |-> name, method |-> "create"]),
          !.upgIReqs = @ \o [i \in DOMAIN idx |->
                               [store |-> name, name |-> idx[i], method |-> "create"]]]

deleteObjectStore(w, name) ==
    commit([w EXCEPT !.upgReqs = Append(@, [name |-> name, method |-> "delete"])],
           0,
           [kind |-> "deleteObjectStore", store |-> name, index |-> "none",
            present |-> name \in w.stores, again |-> FALSE])

deleteIndex(w, objectStoreName, indexName) ==
    commit([w EXCEPT !.upgIReqs =
                Append(@, [store |-> objectStoreName, name |-> indexName,
                           method |-> "delete"])],
           0,
           [kind |-> "deleteIndex", store |-> objectStoreName, index |-> indexName,
            present |-> <<objectStoreName, indexName>> \in w.indexes,
            again |-> FALSE])


(***************************************************************************)
(* The upgrade step.                                                       *)
(***************************************************************************)
Schema(w) == [stores |-> w.stores, indexes |-> w.indexes, data |-> w.data]

(* the apply functions pushed by objectStore / deleteObjectStore, in order *)
RECURSIVE ApplyUpgReqs(_, _)
ApplyUpgReqs(sch, rs) ==
    IF rs = <<>> THEN sch
    ELSE LET r == Head(rs)
             contains == r.name \in sch.stores
             nxt == IF r.method = "create"
                    THEN IF ~contains
                         THEN [sch EXCEPT !.stores = @ \cup {r.name}]
                         ELSE sch
                    ELSE IF contains
                         THEN [sch EXCEPT
                                 !.stores = @ \ {r.name},
                                 !.indexes = {x \in @ : x[1] # r.name},
                                 !.data[r.name] = [k \in Keys |-> NoVal]]
                         ELSE sch
         IN  ApplyUpgReqs(nxt, Tail(rs))

(* the apply functions pushed by objectStore (indices) / deleteIndex *)
RECURSIVE ApplyUpgIReqs(_, _)
ApplyUpgIReqs(sch, rs) ==
    IF rs = <<>> THEN sch
    ELSE LET r == Head(rs)
             contains == <<r.store, r.name>> \in sch.indexes
             nxt == IF r.method = "create"
                    THEN IF ~contains
                         THEN [sch EXCEPT !.indexes = @ \cup {<<r.store, r.name>>}]
                         ELSE sch
                    ELSE IF contains
                         THEN [sch EXCEPT !.indexes = @ \ {<<r.store, r.name>>}]
                         ELSE sch
         IN  ApplyUpgIReqs(nxt, Tail(rs))

(* apply functions that create without looking: createObjectStore and     *)
(* createIndex raise a ConstraintError for a name that is already there    *)
processUpgReqsThrowsUnchecked(w) ==
    \/ ~(targetObjectStoreNames(w) \subseteq ApplyUpgReqs(Schema(w), w.upgReqs).stores)
    \/ \E i \in DOMAIN w.upgReqs :
          /\ w.upgReqs[i].method = "create"
          /\ w.upgReqs[i].name
                \in ApplyUpgReqs(Schema(w), SubSeq(w.upgReqs, 1, i - 1)).stores
    \/ \E i \in DOMAIN w.upgIReqs :
          /\ w.upgIReqs[i].method = "create"
          /\ <<w.upgIReqs[i].store, w.upgIReqs[i].name>>
                \in ApplyUpgIReqs(ApplyUpgReqs(Schema(w), w.upgReqs),
                                  SubSeq(w.upgIReqs, 1, i - 1)).indexes

(* index intents applied before the collection intents: tx.objectStore     *)
(* looks for the store among those the database had before the upgrade     *)
processUpgReqsThrowsIndicesFirst(w) ==
    ~(targetObjectStoreNames(w) \subseteq w.stores)

(* Idb.processUpgReqs: tx.objectStore(storeName) throws a NotFoundError    *)
(* when a store named by an index intent does not exist after the          *)
(* collection intents have been applied.                                   *)
processUpgReqsThrows(w) ==
    ~(targetObjectStoreNames(w) \subseteq ApplyUpgReqs(Schema(w), w.upgReqs).stores)

processUpgReqs(w) ==
    LET sch == ApplyUpgIReqs(ApplyUpgReqs(Schema(w), w.upgReqs), w.upgIReqs)
    IN  [w EXCEPT !.stores = sch.stores, !.indexes = sch.indexes,
                  !.data = sch.data, !.upgReqs = <<>>, !.upgIReqs = <<>>]

(* The engine runs the version change of pass p: the upgradeneeded handler *)
(* of commit runs processUpgReqs; a handler that throws aborts the version *)
(* change (schema and version stay as they were) with upgReqs already      *)
(* emptied, and the open request fails.  Otherwise the version is stored   *)
(* and the open succeeds: the callback runs processReqs.                   *)
upgradeNeeded(w, p) ==
    IF processUpgReqsThrows(w)
    THEN Fail([w EXCEPT !.upgReqs = <<>>], p)
    ELSE processReqs([processUpgReqs(w) EXCEPT !.version = w.passes[p].ver], p)

(***************************************************************************)
(* The engine's side of a data transaction.                                *)
(***************************************************************************)
Conflict(a, b) ==
    /\ a.scope \cap b.scope # {}
    /\ a.mode = "readwrite" \/ b.mode = "readwrite"

(* a transaction runs once no earlier live transaction conflicts with it *)
CanRun(w, t) ==
    /\ w.txs[t].state = "active"
    /\ \A u \in 1..(t - 1) :
          w.txs[u].state = "active" => ~Conflict(w.txs[u], w.txs[t])

Start(w, t) ==
    IF w.txs[t].started THEN w
    ELSE [w EXCEPT !.txs[t].started = TRUE, !.txs[t].snap = w.data]

Settle(w, o, how, why) ==
    IF w.ops[o].status = "pending"
    THEN [w EXCEPT !.ops[o].status = how, !.ops[o].why = why]
    ELSE w

(* an IDBRequest as its event handlers see it: result, error (null when    *)
(* there is none) and transaction (absent for an open or delete request,   *)
(* else with the error of the transaction, null when there is none)        *)
NoTransaction == [present |-> FALSE, error |-> Null]
IDBRequest(result, error, transaction) ==
    [result |-> result, error |-> error, transaction |-> transaction]

(* a rejection that looks at the transaction before the request *)
RejectionTransactionFirst(req) ==
    IF req.transaction.present /\ req.transaction.error # Null
    THEN req.transaction.error
    ELSE IF req.error # Null THEN req.error
    ELSE "Request failed."

(* `req.error ?? req.transaction?.error ?? new Error('Request failed.')` *)
Rejection(req) ==
    IF req.error # Null THEN req.error
    ELSE IF req.transaction.present /\ req.transaction.error # Null
         THEN req.transaction.error
    ELSE "Request failed."

(* the error a rejected future carries *)
Rejected(w, o, e) ==
    IF w.ops[o].status = "pending" THEN [w EXCEPT !.ops[o].error = e] ELSE w

(* queryWrapper: onsuccess resolves the future of the operation *)
requestSuccess(w, t, o, newData) ==
    [Settle(w, o, "fulfilled", "request") EXCEPT
        !.data = newData,
        !.txs[t].queue = Tail(@)]

(* queryWrapper: onerror rejects the future of the operation; the error    *)
(* event reaches tx.onerror of Idb.transaction, which rejects processReqs  *)
(* and so the pass; the engine aborts the transaction: the stores go back  *)
(* to their contents at its start and every request still queued fails.    *)
requestError(w, t, o) ==
    LET rest == Range(Tail(w.txs[t].queue))
        req == IDBRequest(0, "ConstraintError", [present |-> TRUE, error |-> Null])
        w1 == Settle(Rejected(w, o, Rejection(req)), o, "rejected", "request")
        w2 == [w1 EXCEPT
                 !.ops = [q \in DOMAIN @ |->
                            IF q \in rest /\ @[q].status = "pending"
                            THEN [@[q] EXCEPT !.status = "rejected", !.why = "abort"]
                            ELSE @[q]],
                 !.data = [s \in StoreNames |->
                             IF s \in w.txs[t].scope THEN w.txs[t].snap[s]
                             ELSE w.data[s]],
                 !.txs[t].queue = <<>>,
                 !.txs[t].snap = EmptyData,
                 !.txs[t].state = "aborted"]
    IN  Fail(w2, w.txs[t].pass)

(* a put that leaves an occupied key as it is *)
PutIfAbsent(w, s, k, v) ==
    IF w.data[s][k] # NoVal THEN w.data ELSE [w.data EXCEPT ![s][k] = v]

(* os.put(value, key) as the engine carries it out *)
Put(w, s, k, v) == [w.data EXCEPT ![s][k] = v]

(* an add that overwrites like put *)
AddNeverFails(w, s, k) == FALSE

(* os.add(value, key) fails with a ConstraintError when the key is in use *)
AddFails(w, s, k) == w.data[s][k] # NoVal

(* the value a fulfilled future carries *)
Resolved(w, o, r) ==
    IF w.ops[o].status = "pending" THEN [w EXCEPT !.ops[o].result = r] ELSE w

Occupied(w, s) == {k \in Keys : w.data[s][k] # NoVal}

Max(S) == CHOOSE x \in S : \A y \in S : y <= x
Min(S) == CHOOSE x \in S : \A y \in S : x <= y

(* the key generator of a store: one above the largest key in use *)
Generated(w, s) == Max(Occupied(w, s) \cup {0}) + 1

(* the position of the cursor of operation o: the last key it yielded *)
Position(w, o) ==
    IF w.ops[o].seen = <<>> THEN 0 ELSE w.ops[o].seen[Len(w.ops[o].seen)]

(* the engine's answer to openCursor() / continue(): the next key in       *)
(* ascending order, or 0 for the null result at the end of the range       *)
CursorResult(w, o) ==
    LET ahead == {k \in Occupied(w, w.ops[o].store) : k > Position(w, o)}
    IN  IF ahead = {} THEN 0 ELSE Min(ahead)

(* a consumer whose break leaves the request of the cursor in the          *)
(* transaction                                                             *)
cursorWrapperStopKeepsRequest(w, t, o, cursor) ==
    IF cursor = 0
    THEN requestSuccess(Resolved(w, o, Len(w.ops[o].seen)), t, o, w.data)
    ELSE LET w1 == [w EXCEPT !.ops[o].seen = Append(@, cursor)]
         IN  IF w.ops[o].kind = "cursorStop"
             THEN [Settle(Resolved(w1, o, 1), o, "fulfilled", "request")
                     EXCEPT !.txs[t].queue = Append(Tail(@), o)]
             ELSE [w1 EXCEPT !.txs[t].queue = Append(Tail(@), o)]

(* a loop that yields whatever the request reports, the null result too *)
cursorWrapperYieldsNull(w, t, o, cursor) ==
    requestSuccess([w EXCEPT !.ops[o].seen = Append(@, cursor)], t, o, w.data)

(* a pull without continue() that is handed the current cursor once more *)
cursorWrapperPullReyields(w, t, o, cursor) ==
    IF w.ops[o].status # "pending" THEN [w EXCEPT !.txs[t].queue = Tail(@)]
    ELSE IF cursor = 0
    THEN requestSuccess(Resolved(w, o, Len(w.ops[o].seen)), t, o, w.data)
    ELSE LET w1 == [w EXCEPT !.ops[o].seen = Append(@, cursor)]
         IN  CASE w.ops[o].kind = "cursorStop" ->
                    requestSuccess(Resolved(w1, o, 1), t, o, w.data)
               [] w.ops[o].kind = "cursorIdle" ->
                    [w1 EXCEPT !.ops[o].seen = Append(@, cursor),
                               !.txs[t].queue = Tail(@)]
               [] OTHER ->
                    [w1 EXCEPT !.txs[t].queue = Append(Tail(@), o)]

(* cursorWrapper with the consumer's loop around it.  A null result ends   *)
(* the generator; any other result is yielded to the consumer, whose loop  *)
(* body runs before the next engine event: it either calls continue(),     *)
(* which places a new request in the transaction, and pulls again (the     *)
(* generator arms the handlers of the request anew), or breaks out of the  *)
(* loop, which returns the generator, or ("cursorIdle") ends its body      *)
(* without either, so that the loop pulls again: the generator calls       *)
(* queryWrapper on the same request, which has delivered its event and,    *)
(* with no continue(), gets no other; the request has left the             *)
(* transaction and the promise of the pull stays as it is.                 *)
(* When the future of register was rejected before the closure ran (a      *)
(* pass failed and left the closure in the queue), the consumer's first    *)
(* pull has thrown: the generator that the closure makes is never pulled,  *)
(* its body does not run, the request gets no handler and nothing is       *)
(* yielded.                                                                *)
cursorWrapper(w, t, o, cursor) ==
    IF w.ops[o].status # "pending" THEN [w EXCEPT !.txs[t].queue = Tail(@)]
    ELSE IF cursor = 0
    THEN requestSuccess(Resolved(w, o, Len(w.ops[o].seen)), t, o, w.data)
    ELSE LET w1 == [w EXCEPT !.ops[o].seen = Append(@, cursor)]
         IN  CASE w.ops[o].kind = "cursorStop" ->
                    requestSuccess(Resolved(w1, o, 1), t, o, w.data)
               [] w.ops[o].kind = "cursorIdle" ->
                    [w1 EXCEPT !.txs[t].queue = Tail(@)]
               [] OTHER ->
                    [w1 EXCEPT !.txs[t].queue = Append(Tail(@), o)]

(* the engine executes the request at the head of transaction t *)
executeRequest(w0, t) ==
    LET w == Start(w0, t)
        o == Head(w.txs[t].queue)
        s == w.ops[o].store
        k == IF w.ops[o].kind = "addAuto" THEN Generated(w, s) ELSE K1
    IN  CASE w.ops[o].kind \in {"get", "indexGet"} ->
                requestSuccess(Resolved(w, o, w.data[s][k]), t, o, w.data)
          [] w.ops[o].kind = "count" ->
                requestSuccess(Resolved(w, o, Cardinality(Occupied(w, s))),
                               t, o, w.data)
          [] w.ops[o].kind = "put" ->
                requestSuccess(Resolved(w, o, k), t, o, Put(w, s, k, o))
          [] w.ops[o].kind \in {"add", "addAuto"} ->
                IF AddFails(w, s, k) THEN requestError(w, t, o)
                ELSE requestSuccess(Resolved(w, o, k), t, o, Put(w, s, k, o))
          [] w.ops[o].kind \in CursorKinds ->
                cursorWrapper(w, t, o, CursorResult(w, o))

(* queryWrapper called on a request by itself: the handlers it sets, run   *)
(* by a success or an error event of the request held in the record        *)
onsuccess(w, o) ==
    Settle(Resolved(w, o, w.ops[o].req.result), o, "fulfilled", "request")

onerror(w, o) ==
    Settle(Rejected(w, o, Rejection(w.ops[o].req)), o, "rejected", "request")

(* Idb.transaction: oncomplete resolves; processReqs returns *)
transactionComplete(w, t) ==
    AfterProcessReqs([w EXCEPT !.txs[t].state = "committed",
                               !.txs[t].snap = EmptyData],
                     w.txs[t].pass)


(* a constructor that schedules a flush right away *)
IdbEager == [made |-> TRUE, upgReqs |-> <<>>, upgIReqs |-> <<>>, reqs |-> <<>>,
             isCommitRequested |-> TRUE, lead |-> 0, declared |-> {}]

(* The fields of a handle fresh from its constructor *)
Idb == [made |-> TRUE, upgReqs |-> <<>>, upgIReqs |-> <<>>, reqs |-> <<>>,
        isCommitRequested |-> FALSE, lead |-> 0, declared |-> {}]

(***************************************************************************)
(* Initial states: a handle fresh from its constructor, over a database    *)
(* that does not exist yet (the first open creates it at version 1 with no *)
(* stores) or over one that an earlier run of the program left behind.     *)
(***************************************************************************)
InitialDatabases ==
    { [version |-> 1, stores |-> {}, indexes |-> {}],
      [version |-> 2, stores |-> {"s1"}, indexes |-> {<<"s1", "i1">>}] }

Init ==
    /\ upgReqs = Idb.upgReqs
    /\ upgIReqs = Idb.upgIReqs
    /\ reqs = Idb.reqs
    /\ isCommitRequested = Idb.isCommitRequested
    /\ lead = Idb.lead
    /\ ops = <<>>
    /\ passes = <<>>
    /\ txs = <<>>
    /\ openQ = <<>>
    /\ \E db \in InitialDatabases :
          /\ version = db.version
          /\ stores = db.stores
          /\ indexes = db.indexes
    /\ data = EmptyData
    /\ faults = 0
    /\ inBurst = FALSE
    /\ burstNo = 0
    /\ ncalls = 0
    /\ declared = {}
    /\ clean = TRUE
    /\ h2 = [Idb EXCEPT !.made = FALSE]

(***************************************************************************)
(* The caller.  A burst is a stretch of synchronous caller code; the flush *)
(* microtask and the engine's events run only between bursts.              *)
(***************************************************************************)
FlushPending == isCommitRequested \/ h2.isCommitRequested

CallerMayRun == ncalls < MaxCalls /\ (inBurst \/ ~FlushPending)

ThisBurst == IF inBurst THEN burstNo ELSE burstNo + 1

Called ==
    /\ ncalls' = ncalls + 1
    /\ inBurst' = TRUE
    /\ burstNo' = ThisBurst

CallObjectStore ==
    \E name \in StoreNames, indices \in SUBSET IndexNames :
        /\ CallerMayRun
        /\ Becomes(objectStore(World, name, indices))
        /\ declared' = declared \cup {name}
        /\ clean' = (clean /\ name \in stores
                           /\ \A i \in indices : <<name, i>> \in indexes)
        /\ Called

CallOperation ==
    \E kind \in Kinds, store \in declared :
        /\ CallerMayRun
        /\ Becomes(register(World, kind, store,
                            IF kind = "indexGet" THEN CHOOSE i \in IndexNames : TRUE
                            ELSE "none",
                            ThisBurst))
        /\ Called
        /\ UNCHANGED <<declared, clean>>

CallDeleteObjectStore ==
    \E name \in StoreNames :
        /\ CallerMayRun
        /\ Becomes(deleteObjectStore(World, name))
        /\ clean' = FALSE
        /\ Called
        /\ UNCHANGED declared

CallDeleteIndex ==
    \E store \in StoreNames, index \in IndexNames :
        /\ CallerMayRun
        /\ Becomes(deleteIndex(World, store, index))
        /\ clean' = FALSE
        /\ Called
        /\ UNCHANGED declared

EndBurst ==
    /\ inBurst
    /\ inBurst' = FALSE
    /\ UNCHANGED <<upgReqs, upgIReqs, reqs, isCommitRequested, lead, ops, passes,
                   txs, openQ, version, stores, indexes, data, faults, burstNo,
                   ncalls, declared, clean, h2>>

(***************************************************************************)
(* The flush microtask: requestToCommit after `await Promise.resolve()`.   *)
(* Microtasks run in the order they were queued: of two handles with a     *)
(* flush scheduled the one whose operation came first goes first.          *)
(***************************************************************************)
Flushed(w) ==
    commit([w EXCEPT !.isCommitRequested = FALSE, !.lead = 0,
                     !.ops[w.lead].waits = FALSE],
           w.lead,
           [kind |-> "flush", store |-> "none", index |-> "none",
            present |-> FALSE, again |-> FALSE])

Flush ==
    /\ ~inBurst
    /\ isCommitRequested
    /\ h2.isCommitRequested => lead < h2.lead
    /\ Becomes(Flushed(World))
    /\ UNCHANGED <<inBurst, burstNo, ncalls, declared, clean>>

(***************************************************************************)
(* Engine events.                                                          *)
(***************************************************************************)
EngineMayRun == ~inBurst /\ ~FlushPending

(* the state as the handle of pass p sees it *)
Of(p) == IF passes[p].handle = 1 THEN World ELSE World2

Dequeued(p) == [Of(p) EXCEPT !.openQ = Tail(@)]

(* Success of the open request at the head of the engine's queue, without  *)
(* a version change.  The queue is served in order, so a request for       *)
(* version v + 1 computed at version v is reached with the stored version  *)
(* at v or v + 1, never above (NoVersionError below).                      *)
OpenSuccess ==
    /\ EngineMayRun
    /\ openQ # <<>>
    /\ LET p == Head(openQ) IN
         /\ passes[p].stage \in {"chk", "plain"} \/ passes[p].ver = version
         /\ Becomes(IF passes[p].stage = "chk" THEN commitCheck(Dequeued(p), p)
                    ELSE processReqs(Dequeued(p), p))
    /\ UNCHANGED <<inBurst, burstNo, ncalls, declared, clean>>

(* the version change of an open request that asks for a higher version:   *)
(* it waits until every other session on the database is closed            *)
OpenUpgrade ==
    /\ EngineMayRun
    /\ openQ # <<>>
    /\ LET p == Head(openQ) IN
         /\ passes[p].stage = "upg"
         /\ passes[p].ver > version
         /\ SessionsOpen(World) = {}
         /\ Becomes(upgradeNeeded(Dequeued(p), p))
    /\ UNCHANGED <<inBurst, burstNo, ncalls, declared, clean>>

(* the engine refuses an open request for reasons of its own *)
OpenError ==
    /\ EngineMayRun
    /\ openQ # <<>>
    /\ faults < MaxFaults
    /\ Becomes(Fail([Dequeued(Head(openQ)) EXCEPT !.faults = @ + 1], Head(openQ)))
    /\ UNCHANGED <<inBurst, burstNo, ncalls, declared, clean>>

(* the read-only transaction of isNeedToIUpg completes *)
CheckComplete ==
    \E p \in DOMAIN passes :
        /\ EngineMayRun
        /\ passes[p].pc = "chkTx"
        /\ Becomes(commitChecked(Of(p), p, passes[p].need))
        /\ UNCHANGED <<inBurst, burstNo, ncalls, declared, clean>>

Request ==
    \E t \in DOMAIN txs :
        /\ EngineMayRun
        /\ CanRun(World, t)
        /\ txs[t].queue # <<>>
        /\ Becomes(executeRequest(Of(txs[t].pass), t))
        /\ UNCHANGED <<inBurst, burstNo, ncalls, declared, clean>>

Complete ==
    \E t \in DOMAIN txs :
        /\ EngineMayRun
        /\ CanRun(World, t)
        /\ txs[t].queue = <<>>
        /\ Becomes(transactionComplete(Of(txs[t].pass), t))
        /\ UNCHANGED <<inBurst, burstNo, ncalls, declared, clean>>

Next ==
    \/ CallObjectStore
    \/ CallOperation
    \/ CallDeleteObjectStore
    \/ CallDeleteIndex
    \/ EndBurst
    \/ Flush
    \/ OpenSuccess
    \/ OpenUpgrade
    \/ OpenError
    \/ CheckComplete
    \/ Request
    \/ Complete

Spec == Init /\ [][Next]_vars


(***************************************************************************)
(* Two handles for one database name.  The caller obtains the second       *)
(* handle with open(name) at any time and uses both: it declares stores    *)
(* (each store once per handle, without indices) and issues put and get.   *)
(* The engine refuses nothing.                                             *)
(***************************************************************************)
MaxCalls2 == 4         \* calls on the two handles, in total

Handles == {1, 2}
TwoKinds == {"put", "get"}

Handle(h) == IF h = 1 THEN World ELSE World2
DeclaredOn(h) == IF h = 1 THEN declared ELSE h2.declared
Made(h) == h = 1 \/ h2.made

(* what an earlier run of the program stored: a value under every key *)
Rows == [k \in Keys |-> 10 + k]

InitRows ==
    /\ upgReqs = Idb.upgReqs
    /\ upgIReqs = Idb.upgIReqs
    /\ reqs = Idb.reqs
    /\ isCommitRequested = Idb.isCommitRequested
    /\ lead = Idb.lead
    /\ ops = <<>>
    /\ passes = <<>>
    /\ txs = <<>>
    /\ openQ = <<>>
    /\ \E db \in InitialDatabases :
          /\ version = db.version
          /\ stores = db.stores
          /\ indexes = db.indexes
          /\ data = [s \in StoreNames |->
                       IF s \in db.stores THEN Rows ELSE EmptyData[s]]
    /\ faults = 0
    /\ inBurst = FALSE
    /\ burstNo = 0
    /\ ncalls = 0
    /\ declared = {}
    /\ clean = TRUE
    /\ h2 = [Idb EXCEPT !.made = FALSE]

TwoMayRun == ncalls < MaxCalls2 /\ (inBurst \/ ~FlushPending)

(* open(dbname): new Idb(dbname) *)
CallOpen ==
    /\ ~h2.made
    /\ inBurst \/ ~FlushPending
    /\ h2' = Idb
    /\ inBurst' = TRUE
    /\ burstNo' = ThisBurst
    /\ UNCHANGED <<upgReqs, upgIReqs, reqs, isCommitRequested, lead, ops, passes,
                   txs, openQ, version, stores, indexes, data, faults, ncalls,
                   declared, clean>>

TwoObjectStore ==
    \E h \in Handles, name \in StoreNames :
        /\ TwoMayRun
        /\ Made(h)
        /\ name \notin DeclaredOn(h)
        /\ Becomes(IF h = 1 THEN objectStore(World, name, {})
                   ELSE [objectStore(World2, name, {}) EXCEPT
                           !.declared = @ \cup {name}])
        /\ declared' = IF h = 1 THEN declared \cup {name} ELSE declared
        /\ clean' = (clean /\ name \in stores)
        /\ Called

TwoOperation ==
    \E h \in Handles, kind \in TwoKinds :
        \E store \in DeclaredOn(h) :
            /\ TwoMayRun
            /\ Becomes(register(Handle(h), kind, store, "none", ThisBurst))
            /\ Called
            /\ UNCHANGED <<declared, clean>>

Flush2 ==
    /\ ~inBurst
    /\ h2.isCommitRequested
    /\ isCommitRequested => h2.lead < lead
    /\ Becomes(Flushed(World2))
    /\ UNCHANGED <<inBurst, burstNo, ncalls, declared, clean>>

NextTwo ==
    \/ CallOpen
    \/ TwoObjectStore
    \/ TwoOperation
    \/ EndBurst
    \/ Flush
    \/ Flush2
    \/ OpenSuccess
    \/ OpenUpgrade
    \/ Request
    \/ Complete

SpecTwo == InitRows /\ [][NextTwo]_vars

(***************************************************************************)
(* One handle used for data only.  The caller declares stores (each once,  *)
(* without indices; s2 with autoIncrement) and issues writes, counts and   *)
(* cursor loops; a cursor loop either advances after every entry           *)
(* ("cursor") or breaks after the first one ("cursorStop").  The engine    *)
(* refuses nothing.                                                        *)
(***************************************************************************)
MaxDataCalls == 4      \* calls on the handle, in total

DataKinds == {"put", "add", "addAuto", "count", "cursor", "cursorStop"}
Writes == {"put", "add", "addAuto"}

DataMayRun == ncalls < MaxDataCalls /\ (inBurst \/ ~FlushPending)

DataObjectStore ==
    \E name \in StoreNames :
        /\ DataMayRun
        /\ name \notin declared
        /\ Becomes(objectStore(World, name, {}))
        /\ declared' = declared \cup {name}
        /\ clean' = (clean /\ name \in stores)
        /\ Called

(* add without a key is issued only while the keys it can generate are     *)
(* within Keys                                                             *)
DataOperation ==
    \E kind \in DataKinds, store \in declared :
        /\ DataMayRun
        /\ kind = "addAuto" =>
              Cardinality({o \in DOMAIN ops : /\ ops[o].store = store
                                      /\ ops[o].kind \in Writes}) < MaxKey
        /\ Becomes(register(World, kind, store, "none", ThisBurst))
        /\ Called
        /\ UNCHANGED <<declared, clean>>

NextData ==
    \/ DataObjectStore
    \/ DataOperation
    \/ EndBurst
    \/ Flush
    \/ OpenSuccess
    \/ OpenUpgrade
    \/ Request
    \/ Complete

SpecData == InitRows /\ [][NextData]_vars

(***************************************************************************)
(* One handle used to read through indices.  In each call the caller       *)
(* declares store s1 with one index (the one an earlier run created, i1,   *)
(* or a further one, i2) and issues a get through that index, as in        *)
(*   db.objectStore('s1', null, [{name: i, ...}]).index(i).get(k)          *)
(* The two calls are consecutive synchronous code, so they are one step.   *)
(* The engine refuses nothing.                                             *)
(***************************************************************************)
MaxIndexCalls == 3     \* declare-and-read calls, in total

LaterIndexNames == {"i1", "i2"}

CallIndexGet ==
    \E index \in LaterIndexNames :
        /\ ncalls < MaxIndexCalls
        /\ inBurst \/ ~FlushPending
        /\ Becomes(register(objectStore(World, "s1", {index}),
                            "indexGet", "s1", index, ThisBurst))
        /\ declared' = declared \cup {"s1"}
        /\ clean' = (clean /\ <<"s1", index>> \in indexes)
        /\ Called

NextIndex ==
    \/ CallIndexGet
    \/ EndBurst
    \/ Flush
    \/ OpenSuccess
    \/ OpenUpgrade
    \/ CheckComplete
    \/ Request
    \/ Complete

SpecIndex == InitRows /\ [][NextIndex]_vars

(***************************************************************************)
(* The data-only caller over an engine that may give up a read-write       *)
(* transaction when it comes to commit it (the disk is full, say).  The    *)
(* engine then fires `abort` at the transaction and nothing else: no       *)
(* request is pending any more, so no `error` event reaches tx.onerror.    *)
(***************************************************************************)
(* Idb.transaction sets oncomplete and onerror only: the abort changes     *)
(* nothing in the library, its promise stays pending.  The engine takes    *)
(* the stores of the scope back to their contents at the start.            *)
transactionAbort(w0, t) ==
    LET w == Start(w0, t)
    IN  [w EXCEPT
           !.data = [s \in StoreNames |->
                       IF s \in w.txs[t].scope THEN w.txs[t].snap[s]
                       ELSE w.data[s]],
           !.txs[t].snap = EmptyData,
           !.txs[t].state = "aborted",
           !.faults = @ + 1]

Abort ==
    \E t \in DOMAIN txs :
        /\ EngineMayRun
        /\ CanRun(World, t)
        /\ txs[t].queue = <<>>
        /\ txs[t].mode = "readwrite"
        /\ faults < MaxFaults
        /\ Becomes(transactionAbort(Of(txs[t].pass), t))
        /\ UNCHANGED <<inBurst, burstNo, ncalls, declared, clean>>

NextAbort ==
    \/ DataObjectStore
    \/ DataOperation
    \/ EndBurst
    \/ Flush
    \/ OpenSuccess
    \/ OpenUpgrade
    \/ Request
    \/ Complete
    \/ Abort

SpecAbort == InitRows /\ [][NextAbort]_vars

(***************************************************************************)
(* queryWrapper by itself.  The library wraps a request (an open or delete *)
(* request, which has no transaction, or a request placed in a             *)
(* transaction) and the engine signals it: success with a result, or error *)
(* with whatever the request and its transaction report.  A request may be *)
(* signalled more than once (a cursor request is, once per advance).       *)
(***************************************************************************)
MaxWrapped == 2        \* calls of queryWrapper
MaxSignals == 2        \* events the engine fires at one request

Results == 1..2
Errors == {Null, "ConstraintError"}
Transactions == {NoTransaction,
                 [present |-> TRUE, error |-> Null],
                 [present |-> TRUE, error |-> "AbortError"]}

(* queryWrapper(req): a pending future with both handlers set *)
queryWrapper(w, transaction) ==
    [w EXCEPT !.ops = Append(@, [kind |-> "request", status |-> "pending",
                                 why |-> "none", result |-> 0, error |-> Null,
                                 signals |-> 0, event |-> "none",
                                 req |-> IDBRequest(0, Null, transaction)])]

CallQueryWrapper ==
    \E transaction \in {tx \in Transactions : tx.error = Null} :
        /\ ncalls < MaxWrapped
        /\ Becomes(queryWrapper(World, transaction))
        /\ ncalls' = ncalls + 1
        /\ UNCHANGED <<inBurst, burstNo, declared, clean>>

(* the engine sets the fields of request o and fires the event *)
Signalled(o, event, result, error, transaction) ==
    [World EXCEPT !.ops[o].req = IDBRequest(result, error, transaction),
                  !.ops[o].event = event,
                  !.ops[o].signals = @ + 1]

SignalSuccess ==
    \E o \in DOMAIN ops, result \in Results :
        /\ ops[o].signals < MaxSignals
        /\ Becomes(onsuccess(Signalled(o, "success", result, Null,
                                       ops[o].req.transaction), o))
        /\ UNCHANGED <<inBurst, burstNo, ncalls, declared, clean>>

SignalError ==
    \E o \in DOMAIN ops, error \in Errors, transaction \in Transactions :
        /\ ops[o].signals < MaxSignals
        /\ transaction.present = ops[o].req.transaction.present
        /\ Becomes(onerror(Signalled(o, "error", 0, error, transaction), o))
        /\ UNCHANGED <<inBurst, burstNo, ncalls, declared, clean>>

NextWrap ==
    \/ CallQueryWrapper
    \/ SignalSuccess
    \/ SignalError

SpecWrap == Init /\ [][NextWrap]_vars

(***************************************************************************)
(* One handle used for scans.  The caller declares stores (each once,      *)
(* without indices) and issues counts and cursor loops of every kind:      *)
(* openCursor and openKeyCursor on the store handle and on the handle of   *)
(* index i1, which an earlier run created on s1 and which a store created  *)
(* now does not have.  A loop advances after every entry, breaks after     *)
(* the first ("cursorStop") or pulls again without advancing               *)
(* ("cursorIdle").  The engine refuses nothing.                            *)
(***************************************************************************)
MaxScanCalls == 4      \* calls on the handle, in total

ScanKinds ==
    {"count", "cursor", "cursorStop", "cursorIdle", "keyCursor", "indexCursor",
     "indexKeyCursor"}

ScanMayRun == ncalls < MaxScanCalls /\ (inBurst \/ ~FlushPending)

ScanObjectStore ==
    \E name \in StoreNames :
        /\ ScanMayRun
        /\ name \notin declared
        /\ Becomes(objectStore(World, name, {}))
        /\ declared' = declared \cup {name}
        /\ clean' = (clean /\ name \in stores)
        /\ Called

ScanOperation ==
    \E kind \in ScanKinds, store \in declared :
        /\ ScanMayRun
        /\ Becomes(register(World, kind, store,
                            IF kind \in IndexKinds THEN "i1" ELSE "none",
                            ThisBurst))
        /\ Called
        /\ UNCHANGED <<declared, clean>>

NextScan ==
    \/ ScanObjectStore
    \/ ScanOperation
    \/ EndBurst
    \/ Flush
    \/ OpenSuccess
    \/ OpenUpgrade
    \/ Request
    \/ Complete

SpecScan == InitRows /\ [][NextScan]_vars

TypeOK ==
    /\ isCommitRequested \in BOOLEAN
    /\ \A i \in DOMAIN reqs : reqs[i] \in DOMAIN ops
    /\ \A s \in StoreNames \ stores : data[s] = EmptyData[s]
    /\ \A x \in indexes : x[1] \in stores

NoVersionError ==
    \A i \in DOMAIN openQ :
        passes[openQ[i]].stage = "upg" => passes[openQ[i]].ver >= version

(* nothing is scheduled, queued at the engine or running *)
Quiescent ==
    /\ ~inBurst
    /\ ~FlushPending
    /\ openQ = <<>>
    /\ \A p \in DOMAIN passes : passes[p].pc \in {"done", "failed"}


(***************************************************************************)
(* Properties.                                                             *)
(***************************************************************************)
Op == DOMAIN ops
Pass == DOMAIN passes
Ran(o) == ops[o].ran # {}
PassFailed == \E p \in Pass : passes[p].pc = "failed"

(* C1: the data operations of one synchronous burst are executed by one    *)
(* data transaction: the closure of each runs at most once, as soon as one *)
(* of them has run all of them have run, in the same transaction, and when *)
(* the handle has come to rest without a failed pass all of them have run. *)
C1_BurstSharesOneTransaction ==
    /\ \A a \in Op : Cardinality(ops[a].ran) <= 1
    /\ \A a, b \in Op :
          ops[a].burst = ops[b].burst /\ Ran(a) => ops[b].ran = ops[a].ran
    /\ Quiescent /\ ~PassFailed => \A a \in Op : Ran(a)

C1_Witness ==
    \E a, b \in Op :
        /\ a # b
        /\ ops[a].burst = ops[b].burst
        /\ Ran(a)
        /\ ops[a].ran = ops[b].ran
        /\ txs[CHOOSE t \in ops[a].ran : TRUE].state = "committed"

(* every operation was issued after all earlier ones had been fulfilled *)
Sequential == \A b \in Op : ops[b].after = 1..(b - 1)

(* C2: when each operation is issued after the future of the one before   *)
(* was fulfilled, no two operations share a transaction and the number of  *)
(* data transactions opened equals the number of operations executed; once *)
(* all N are fulfilled, N transactions have been opened.                   *)
C2_AwaitedOpsGetOwnTransaction ==
    /\ \A a, b \in Op :
          a \in ops[b].after => ops[a].ran \cap ops[b].ran = {}
    /\ Sequential =>
          /\ Len(txs) = Cardinality({a \in Op : Ran(a)})
          /\ (\A a \in Op : ops[a].status = "fulfilled") => Len(txs) = Len(ops)

C2_Witness ==
    /\ Sequential
    /\ Len(ops) >= 2
    /\ \A a \in Op : ops[a].status = "fulfilled"
    /\ Len(txs) = Len(ops)

(* C3: after a commit pass has failed no operation's future stays pending: *)
(* once the handle has come to rest every future is settled.               *)
C3_NoFutureLeftPending ==
    Quiescent /\ PassFailed => \A o \in Op : ops[o].status # "pending"

(* C4: an operation issued on the idle handle after a pass has failed is   *)
(* served as if the failed pass had never happened: the transaction that   *)
(* executes it executes no operation of an earlier burst.                  *)
C4_LaterPassUnaffected ==
    \A o, q \in Op :
        /\ ops[o].failedBefore
        /\ ops[o].idleAtIssue
        /\ ops[q].burst < ops[o].burst
        => ops[q].ran \cap ops[o].ran = {}

(* C5: a transaction in which a closure threw is aborted: it never commits *)
C5_ThrowingClosureAborts ==
    \A o \in Op : \A t \in ops[o].ran :
        ops[o].why = "closure" => txs[t].state # "committed"

(* C6: an operation whose future was rejected because its commit pass      *)
(* failed is never executed by a commit pass.                              *)
C6_NoRetry ==
    \A o \in Op : ops[o].why = "pass" => ~Ran(o)

(* C7: the handle never holds two engine sessions open at the same time    *)
C7_OneSession == Cardinality(SessionsOpen(World)) <= 1

(* C8: while every declaration made so far named a collection or index     *)
(* that exists, no step changes the stored version.                        *)
C8_ExistingDeclarationsKeepVersion == [][clean' => version' = version]_vars

C8_Witness ==
    /\ clean
    /\ declared # {}
    /\ \E p \in Pass : passes[p].pc = "done"
    /\ \E o \in Op : ops[o].status = "fulfilled"

(* C9: the promise of deleteObjectStore / deleteIndex for a target that    *)
(* does not exist is not rejected, when the engine refuses no open.        *)
C9_DeleteAbsentResolves ==
    \A p \in Pass :
        /\ passes[p].call.kind \in {"deleteObjectStore", "deleteIndex"}
        /\ ~passes[p].call.present
        /\ faults = 0
        => passes[p].pc # "failed"

(* C10: in the step that resolves the promise of deleteIndex(store, index) *)
(* the index is absent from the store.                                     *)
C10_DeleteIndexRemoves ==
    [][\A p \in DOMAIN passes' :
          /\ p \notin Pass \/ passes[p].pc # "done"
          /\ passes'[p].pc = "done"
          /\ passes'[p].call.kind = "deleteIndex"
          => <<passes'[p].call.store, passes'[p].call.index>> \notin indexes']_vars

(* the step settles the promise of pass p as fulfilled *)
Resolves(p) ==
    /\ p \in DOMAIN passes'
    /\ passes'[p].pc = "done"
    /\ p \notin Pass \/ passes[p].pc # "done"

(* C11: in the step that resolves the promise of deleteObjectStore(name),  *)
(* called for a store that existed and that the caller has not declared    *)
(* again since, the store is absent; and no step removes a store for which *)
(* deleteObjectStore was never called.                                     *)
C11_DeleteObjectStoreRemoves ==
    [][/\ \A p \in DOMAIN passes' :
            /\ Resolves(p)
            /\ passes'[p].call.kind = "deleteObjectStore"
            /\ passes'[p].call.present
            /\ ~passes'[p].call.again
            => passes'[p].call.store \notin stores'
       /\ \A s \in stores \ stores' :
            \E q \in Pass : /\ passes[q].call.kind = "deleteObjectStore"
                            /\ passes[q].call.store = s]_vars

(* C12: a declaration is carried out without further calls: whenever the   *)
(* handle is at rest (no flush scheduled, no pass running, so that no step *)
(* but a call of the caller is possible) and no pass has failed, the       *)
(* ledgers hold no create intent for a collection or index that is missing *)
(* from the database.                                                      *)
C12_DeclarationIsFlushed ==
    Quiescent /\ ~PassFailed =>
        /\ \A i \in DOMAIN upgReqs :
              upgReqs[i].method = "create" => upgReqs[i].name \in stores
        /\ \A i \in DOMAIN upgIReqs :
              upgIReqs[i].method = "create" =>
                  <<upgIReqs[i].store, upgIReqs[i].name>> \in indexes

(* get b follows put a: b was issued after a through the same handle (in   *)
(* the same burst or a later one), or through any handle after the future  *)
(* of a had been fulfilled                                                 *)
Follows(a, b) ==
    /\ a < b
    /\ ops[a].handle = ops[b].handle \/ a \in ops[b].after

(* no other write to the store competes with put a before get b: every     *)
(* other put or add on it was fulfilled before a was issued or was issued  *)
(* after b had been fulfilled                                              *)
NoRival(a, b) ==
    \A c \in Op \ {a} :
        ops[c].kind \in {"put", "add", "addAuto"} /\ ops[c].store = ops[a].store
        => c \in ops[a].after \/ b \in ops[c].after

(* C13: a fulfilled get(k) that follows a fulfilled put(v, k) on the same  *)
(* store, through the same or the other handle, with no competing write,   *)
(* is fulfilled with v (the value a put stores is its operation id).       *)
C13_PutGetRoundTrip ==
    \A a, b \in Op :
        /\ ops[a].kind = "put" /\ ops[b].kind = "get"
        /\ ops[a].store = ops[b].store
        /\ ops[a].status = "fulfilled" /\ ops[b].status = "fulfilled"
        /\ Follows(a, b)
        /\ NoRival(a, b)
        => ops[b].result = a

(* put through one handle on an occupied key, then get through the other   *)
(* handle in a later pass                                                  *)
C13_Witness ==
    \E a, b \in Op :
        /\ ops[a].kind = "put" /\ ops[b].kind = "get"
        /\ ops[a].store = ops[b].store
        /\ ops[a].handle # ops[b].handle
        /\ a \in ops[b].after
        /\ NoRival(a, b)
        /\ ops[b].status = "fulfilled"
        /\ ops[b].result = a
        /\ version = 2

(* the step executes the request at the head of transaction t *)
Executed(t) ==
    /\ txs[t].queue # <<>>
    /\ txs'[t].queue # txs[t].queue

(* the value the database holds under key k of store s for transaction t:  *)
(* the one at the start of t, whatever t itself has written since          *)
StoredFor(t, s, k) == IF txs[t].started THEN txs[t].snap[s][k] ELSE data[s][k]

(* C14: the step that executes add(v, k) with key k occupied, the future   *)
(* of the add being still pending, rejects that future with the request's  *)
(* error, and afterwards the store holds under k the value that was stored *)
(* there before.                                                           *)
C14_AddOccupiedRejects ==
    [][\A t \in DOMAIN txs :
          LET o == Head(txs[t].queue)
              s == ops[o].store
          IN  /\ Executed(t)
              /\ ops[o].kind = "add"
              /\ ops[o].status = "pending"
              /\ data[s][K1] # NoVal
              => /\ ops'[o].status = "rejected"
                 /\ ops'[o].why = "request"
                 /\ data'[s][K1] = StoredFor(t, s, K1)]_vars

(* an add on a key that an earlier run had filled has been rejected *)
C14_Witness ==
    \E o \in Op :
        /\ ops[o].kind = "add"
        /\ ops[o].status = "rejected"
        /\ ops[o].why = "request"
        /\ data[ops[o].store][K1] = Rows[K1]

(* the add operations without a key issued on store s *)
AutoAdds(s) == {o \in Op : ops[o].kind = "addAuto" /\ ops[o].store = s}

(* store s has a key generator and starts empty, and all that is ever      *)
(* written to it are add operations without a key, issued in one burst     *)
OneBurstOfAutoAdds(s) ==
    /\ AutoIncrement(s)
    /\ \A db \in InitialDatabases : s \notin db.stores
    /\ AutoAdds(s) # {}
    /\ \A o \in Op : ops[o].store = s /\ ops[o].kind \in Writes => o \in AutoAdds(s)
    /\ \A a, b \in AutoAdds(s) : ops[a].burst = ops[b].burst

(* C15: of k add operations without a key issued in one burst on an empty  *)
(* store with a key generator, the i-th in issue order is fulfilled with   *)
(* key i; and a count() issued after them is fulfilled with k once all k   *)
(* are fulfilled and their transaction has not been aborted.               *)
C15_AutoKeysInOrder ==
    \A s \in StoreNames :
        OneBurstOfAutoAdds(s) =>
            /\ \A a \in AutoAdds(s) :
                  ops[a].status = "fulfilled" =>
                      ops[a].result = Cardinality({x \in AutoAdds(s) : x <= a})
            /\ \A c \in Op :
                  /\ ops[c].kind = "count" /\ ops[c].store = s
                  /\ ops[c].status = "fulfilled"
                  /\ \A a \in AutoAdds(s) :
                        /\ a < c
                        /\ ops[a].status = "fulfilled"
                        /\ \A t \in ops[a].ran : txs[t].state # "aborted"
                  => ops[c].result = Cardinality(AutoAdds(s))

C15_Witness ==
    \E s \in StoreNames, a, b, c \in Op :
        /\ OneBurstOfAutoAdds(s)
        /\ AutoAdds(s) = {a, b} /\ a < b /\ b < c
        /\ ops[a].status = "fulfilled" /\ ops[a].result = 1
        /\ ops[b].status = "fulfilled" /\ ops[b].result = 2
        /\ ops[c].kind = "count" /\ ops[c].store = s
        /\ ops[c].status = "fulfilled" /\ ops[c].result = 2

(* the keys in use in store s of contents d, in ascending order *)
KeysIn(d, s) == {k \in Keys : d[s][k] # NoVal}

RECURSIVE Ascending(_)
Ascending(S) ==
    IF S = {} THEN <<>>
    ELSE LET m == CHOOSE x \in S : \A y \in S : x <= y
         IN  <<m>> \o Ascending(S \ {m})

(* C16: a cursor loop that advances after every entry is handed keys in    *)
(* strictly ascending order, and in the step in which it ends (the pull    *)
(* reports the end of the sequence) it has been handed exactly the keys of *)
(* the store, each once, in ascending order.                               *)
C16_CursorYieldsAllInOrder ==
    [][\A o \in DOMAIN ops' :
          ops'[o].kind = "cursor" =>
              /\ \A i, j \in DOMAIN ops'[o].seen :
                    i < j => ops'[o].seen[i] < ops'[o].seen[j]
              /\ /\ o \in Op
                 /\ ops[o].status = "pending"
                 /\ ops'[o].status = "fulfilled"
                 => /\ ops'[o].seen = Ascending(KeysIn(data', ops'[o].store))
                    /\ ops'[o].result = Cardinality(KeysIn(data', ops'[o].store))
                    /\ \A t \in DOMAIN txs' : \A i \in DOMAIN txs'[t].queue :
                          txs'[t].queue[i] # o]_vars

(* a cursor loop over two entries has ended *)
C16_Witness ==
    \E o \in Op :
        /\ ops[o].kind = "cursor"
        /\ ops[o].status = "fulfilled"
        /\ ops[o].seen = <<1, 2>>
        /\ ops[o].result = 2

(* C17: in the step in which a cursor loop breaks after its first entry no *)
(* future is rejected, the contents of every store stay as they are, and   *)
(* the request of the cursor is gone from the transaction, which can       *)
(* therefore complete like any other.                                      *)
C17_CursorStopIsHarmless ==
    [][\A o \in Op :
          /\ ops[o].kind = "cursorStop"
          /\ ops[o].status = "pending"
          /\ ops'[o].status # "pending"
          /\ ops'[o].seen # <<>>
          => /\ ops'[o].status = "fulfilled"
             /\ ops'[o].seen = <<Min(KeysIn(data, ops[o].store))>>
             /\ \A q \in Op : ops'[q].status = "rejected" => ops[q].status = "rejected"
             /\ data' = data
             /\ \A t \in DOMAIN txs' : \A i \in DOMAIN txs'[t].queue :
                   txs'[t].queue[i] # o]_vars

(* a loop broke after the first of two entries, its transaction committed, *)
(* and an operation issued afterwards was served by a later pass           *)
C17_Witness ==
    \E o, q \in Op :
        /\ ops[o].kind = "cursorStop"
        /\ ops[o].status = "fulfilled"
        /\ ops[o].seen = <<1>>
        /\ data[ops[o].store] = Rows
        /\ \A t \in ops[o].ran : txs[t].state = "committed"
        /\ o \in ops[q].after
        /\ ops[q].status = "fulfilled"
        /\ ops[q].ran \cap ops[o].ran = {}
        /\ ~PassFailed

(* store s existed, with the rows of an earlier run, before the handle was *)
(* made (no operation of the model writes key MaxKey)                      *)
HeldRows(s) == data[s][MaxKey] = Rows[MaxKey]

(* C18: a get through an index declared for a store that already held rows *)
(* is not rejected; when it is fulfilled the store has that index and the  *)
(* index of the earlier run, the rows are the ones it held, and the get    *)
(* has returned the row under its key; and the stored version never moves  *)
(* by more than one in a step, nor does such a step touch the rows.        *)
C18_IndexAddedLater ==
    [][/\ \A q \in DOMAIN ops' :
            /\ ops'[q].kind = "indexGet"
            /\ HeldRows(ops'[q].store)
            => /\ ops'[q].status # "rejected"
               /\ ops'[q].status = "fulfilled" =>
                     /\ <<ops'[q].store, ops'[q].index>> \in indexes'
                     /\ <<ops'[q].store, "i1">> \in indexes'
                     /\ data'[ops'[q].store] = Rows
                     /\ ops'[q].result = Rows[K1]
       /\ version' # version => version' = version + 1 /\ data' = data]_vars

(* C19: obtaining a handle asks nothing of the engine.  As long as no      *)
(* method has been called on a handle, its queues are empty, its flush     *)
(* flag is false, and no pass, open request or transaction exists on its   *)
(* behalf.                                                                 *)
C19_HandleIsLazy ==
    /\ ncalls = 0 =>
          /\ upgReqs = <<>> /\ upgIReqs = <<>> /\ reqs = <<>>
          /\ ~isCommitRequested
          /\ passes = <<>> /\ openQ = <<>> /\ txs = <<>>
    /\ h2.declared = {} =>
          /\ h2.upgReqs = <<>> /\ h2.upgIReqs = <<>> /\ h2.reqs = <<>>
          /\ ~h2.isCommitRequested
          /\ \A p \in Pass : passes[p].handle = 1

(* the second handle was made while a pass of the first was under way, and *)
(* nothing has been asked of the engine on its behalf                      *)
C19_Witness ==
    /\ h2.made
    /\ h2.declared = {}
    /\ h2.upgReqs = <<>> /\ h2.reqs = <<>> /\ ~h2.isCommitRequested
    /\ openQ # <<>>
    /\ \A p \in Pass : passes[p].handle = 1

(* each handle has declared only stores that are new (no earlier run left  *)
(* them behind) and that the other handle has not declared, and all that   *)
(* was issued are writes                                                   *)
DisjointNewStores ==
    /\ declared \cap h2.declared = {}
    /\ \A s \in declared \cup h2.declared : ~HeldRows(s)
    /\ \A o \in Op : ops[o].kind = "put"

(* C20: when two handles for the same database each declare new stores of  *)
(* their own and write to them, no pass fails and no write is rejected,    *)
(* and once both handles are at rest every write issued is fulfilled and   *)
(* stored in its store.                                                    *)
C20_HandlesConverge ==
    DisjointNewStores =>
        /\ ~PassFailed
        /\ \A o \in Op : ops[o].status # "rejected"
        /\ Quiescent =>
              \A o \in Op : /\ ops[o].status = "fulfilled"
                            /\ ops[o].store \in stores
                            /\ data[ops[o].store][K1] \in Op

(* the caller removed the store of operation o after issuing o *)
DeletedSince(o) ==
    \E q \in Pass : /\ q > ops[o].npass
                    /\ passes[q].call.kind = "deleteObjectStore"
                    /\ passes[q].call.store = ops[o].store

(* C21: no commit pass fails in db.transaction because the store of a      *)
(* queued operation is missing, when that operation was issued through its *)
(* store handle on the idle handle, no pass had failed before, and the     *)
(* caller has not called deleteObjectStore for the store since.            *)
C21_CollectionNeverMissing ==
    \A p \in Pass : \A o \in passes[p].missing :
        ops[o].idleAtIssue /\ ~ops[o].failedBefore => DeletedSince(o)

(* the operations whose closure was invoked against transaction t *)
InvokedIn(t) == {o \in Op : t \in ops[o].ran}

(* C22: the scope of every data transaction is exactly the set of the      *)
(* store names of the closures invoked against it (an index operation      *)
(* counts under the store that owns the index), whatever was enqueued      *)
(* while the pass was under way.                                           *)
C22_ScopeIsExactlyTheClosures ==
    \A t \in DOMAIN txs :
        txs[t].scope = {ops[o].store : o \in InvokedIn(t)}

(* a transaction over both stores has committed, with a closure for each *)
C22_Witness ==
    \E t \in DOMAIN txs :
        /\ txs[t].scope = StoreNames
        /\ txs[t].state = "committed"
        /\ \A s \in StoreNames : \E o \in InvokedIn(t) : ops[o].store = s

(* C23: a data transaction is read-only exactly when every operation whose *)
(* closure was invoked against it was enqueued with mode 'readonly'; one   *)
(* read-write entry makes it read-write.                                   *)
C23_ReadonlyIffAllReadonly ==
    \A t \in DOMAIN txs :
        txs[t].mode = "readonly" <=>
            \A o \in InvokedIn(t) : ModeOf(ops[o].kind) = "readonly"

(* one transaction served a count and a put and was read-write, another    *)
(* served a count alone and was read-only                                  *)
C23_Witness ==
    \E t, u \in DOMAIN txs :
        /\ txs[t].mode = "readwrite"
        /\ \E a, b \in InvokedIn(t) : ops[a].kind = "count" /\ ops[b].kind = "put"
        /\ txs[u].mode = "readonly"
        /\ InvokedIn(u) # {}
        /\ txs[t].state = "committed" /\ txs[u].state = "committed"

(* the calls of requestToCommit on handle h that got past the flag and     *)
(* whose continuation after `await Promise.resolve()` has not run yet      *)
Scheduled(h) == {o \in Op : ops[o].handle = h /\ ops[o].waits}

FlagOf(h) == IF h = 1 THEN isCommitRequested ELSE h2.isCommitRequested
ReqsOf(h) == IF h = 1 THEN reqs ELSE h2.reqs

(* C24: on each handle at most one flush continuation is scheduled, the    *)
(* flag isCommitRequested is true exactly while one is, and an operation   *)
(* enqueued while the flag is true is appended to the queue without        *)
(* another continuation being scheduled or a pass being started.           *)
C24_OneFlushScheduled ==
    [][\A h \in Handles :
          /\ Cardinality(Scheduled(h)') <= 1
          /\ FlagOf(h)' <=> Scheduled(h)' # {}
          /\ \A o \in DOMAIN ops' \ Op :
                ops'[o].handle = h /\ FlagOf(h)
                => /\ ReqsOf(h)' = Append(ReqsOf(h), o)
                   /\ Scheduled(h)' = Scheduled(h)
                   /\ FlagOf(h)'
                   /\ passes' = passes]_vars

(* three operations were enqueued on one handle in one burst and one       *)
(* continuation is scheduled for them                                      *)
C24_Witness ==
    \E h \in Handles :
        /\ Len(ReqsOf(h)) = 3
        /\ FlagOf(h)
        /\ Cardinality(Scheduled(h)) = 1

(* C25: every burst of the caller starts at most one commit pass, so the   *)
(* calls of commit made so far never outnumber the bursts started so far.  *)
C25_OnePassPerBurst == Len(passes) <= burstNo

(* C26: in the step in which processReqs opens a data transaction, the     *)
(* closures of the queued operations are invoked in submission order and   *)
(* all against that transaction: the requests they place are in the        *)
(* transaction in the order in which the operations were issued (a closure *)
(* that throws places none and rejects its future), every queued one has   *)
(* had its closure invoked, and none against another transaction in this   *)
(* step.                                                                   *)
C26_ClosuresRunInFifoOrder ==
    [][\A t \in DOMAIN txs' \ DOMAIN txs :
          LET queue == txs'[t].queue
              batch == reqs
          IN  /\ \A i, j \in DOMAIN queue : i < j => queue[i] < queue[j]
              /\ \A i, j \in DOMAIN batch : i < j => batch[i] < batch[j]
              /\ \A o \in Op : ops'[o].ran # ops[o].ran <=> o \in Range(batch)
              /\ \A o \in Range(batch) : ops'[o].ran = ops[o].ran \cup {t}
              /\ Range(queue) \subseteq Range(batch)
              /\ \A o \in Range(batch) \ Range(queue) :
                    ops'[o].status = "rejected"]_vars

(* three operations of one burst have placed their requests in one         *)
(* transaction, in the order of issue                                      *)
C26_Witness ==
    \E t \in DOMAIN txs :
        /\ Len(txs[t].queue) = 3
        /\ ~txs[t].started
        /\ \A i \in 1..2 : txs[t].queue[i] < txs[t].queue[i + 1]
        /\ \A i \in 1..3 : ops[txs[t].queue[i]].ran = {t}

(* no later intent of ledger l undoes what the create intent at i asks for *)
StandsCreate(l, i) ==
    /\ l[i].method = "create"
    /\ \A j \in DOMAIN l : j > i /\ l[j].name = l[i].name => l[j].method = "create"

(* C27: an intent leaves the ledger only applied or found satisfied.  In a *)
(* step that takes intents off the ledger without a pass failing, every    *)
(* collection that a create intent of the ledger asked for (and no later   *)
(* intent asked to delete) exists afterwards.                              *)
C27_NoIntentDroppedUnexamined ==
    [][/\ upgReqs' # upgReqs
       /\ Len(upgReqs') < Len(upgReqs)
       /\ \A p \in DOMAIN passes' : passes'[p].pc # "failed"
       => \A i \in DOMAIN upgReqs :
             StandsCreate(upgReqs, i) => upgReqs[i].name \in stores']_vars

(* the check session of pass p found an intent necessary *)
FoundNecessary(p) == passes[p].stage = "upg"

LastIsCreate(l, n) ==
    \E i \in DOMAIN l :
        /\ l[i].name = n /\ l[i].method = "create"
        /\ \A j \in DOMAIN l : j > i => l[j].name # n

(* collection n exists once the collection intents of the ledger have been *)
(* applied in submission order                                             *)
ExistsAfter(n) ==
    IF \E i \in DOMAIN upgReqs : upgReqs[i].name = n
    THEN LastIsCreate(upgReqs, n)
    ELSE n \in stores

(* the engine runs the version change for the pass at the head of its      *)
(* queue                                                                   *)
Upgrades ==
    /\ openQ # <<>>
    /\ openQ' = Tail(openQ)
    /\ faults' = faults
    /\ passes[Head(openQ)].stage = "upg"
    /\ passes[Head(openQ)].ver > version

(* the ledgers hold nothing but create intents, and some collection or     *)
(* index is declared more than once                                        *)
DeclaredTwice ==
    /\ \A i \in DOMAIN upgReqs : upgReqs[i].method = "create"
    /\ \A i \in DOMAIN upgIReqs : upgIReqs[i].method = "create"
    /\ \/ \E i, j \in DOMAIN upgReqs : i < j /\ upgReqs[i] = upgReqs[j]
       \/ \E i, j \in DOMAIN upgIReqs : i < j /\ upgIReqs[i] = upgIReqs[j]

(* the schema after one declaration of each collection and index named in  *)
(* the ledgers                                                             *)
DeclaredOnce ==
    [stores |-> stores \cup {upgReqs[i].name : i \in DOMAIN upgReqs},
     indexes |-> indexes \cup {<<upgIReqs[i].store, upgIReqs[i].name>> :
                                  i \in DOMAIN upgIReqs}]

(* C29: an upgrade whose ledger declares a collection or index more than   *)
(* once (every index for a collection that is declared with it or exists)  *)
(* is not aborted by an apply function, moves the version by one,          *)
(* leaves the schema that one declaration of each would leave, touches no  *)
(* row, and leaves the ledger empty, so that no second bump follows from   *)
(* the same declarations.                                                  *)
C29_RepeatedDeclarationHarmless ==
    [][/\ DeclaredTwice
       /\ Upgrades
       /\ \A i \in DOMAIN upgIReqs : ExistsAfter(upgIReqs[i].store)
       => /\ version' = version + 1
          /\ stores' = DeclaredOnce.stores
          /\ indexes' = DeclaredOnce.indexes
          /\ data' = data
          /\ upgReqs' = <<>> /\ upgIReqs' = <<>>
          /\ ~(passes'[Head(openQ)].pc = "failed" /\ passes'[Head(openQ)].missing = {})]_vars

(* store s1, declared twice in the one burst of the caller on a database   *)
(* just created, exists with its index after one upgrade to version 2      *)
C29_Witness ==
    /\ ncalls = 3
    /\ burstNo = 1
    /\ declared = {"s1"}
    /\ Len(ops) = 1
    /\ Len(passes) = 1
    /\ passes[1].call.kind = "flush"
    /\ passes[1].pc = "done"
    /\ passes[1].ver = 2
    /\ version = 2
    /\ stores = {"s1"}
    /\ indexes = {<<"s1", "i1">>}
    /\ ops[1].status = "fulfilled"

(* C30: in an upgrade the collection intents are applied in submission     *)
(* order and before the index intents.  When every index intent names a    *)
(* collection that exists once the collection intents are applied (as when *)
(* a new collection is declared together with its indices), the upgrade is *)
(* not aborted; the collections in existence afterwards are those the      *)
(* collection intents leave; every index declared (and not asked to be     *)
(* deleted) exists; and the data operations waiting in the queue are run   *)
(* in the same step against the new schema: when the stores of all of them *)
(* exist now, the closure of each is invoked, and a read through an index  *)
(* that exists now does not throw.                                         *)
C30_CollectionsBeforeIndices ==
    [][/\ Upgrades
       /\ \A i \in DOMAIN upgIReqs : ExistsAfter(upgIReqs[i].store)
       => /\ version' = passes[Head(openQ)].ver
          /\ stores' = {n \in StoreNames : ExistsAfter(n)}
          /\ \A i \in DOMAIN upgIReqs :
                /\ upgIReqs[i].method = "create"
                /\ \A j \in DOMAIN upgIReqs :
                      upgIReqs[j].method = "delete" =>
                          upgIReqs[j].name # upgIReqs[i].name
                => <<upgIReqs[i].store, upgIReqs[i].name>> \in indexes'
          /\ \A o \in Range(reqs) :
                /\ (\A q \in Range(reqs) : ops[q].store \in stores')
                   => ops'[o].ran # ops[o].ran
                /\ /\ ops[o].kind = "indexGet"
                   /\ ops[o].status = "pending"
                   /\ <<ops[o].store, ops[o].index>> \in indexes'
                   /\ ops'[o].ran # ops[o].ran
                   => ops'[o].status = "pending"]_vars

(* a store declared with an index on a database just created: after one    *)
(* pass both exist and the read through the index, issued in the burst of  *)
(* the declaration, is fulfilled                                           *)
C30_Witness ==
    /\ version = 2
    /\ Len(passes) = 1
    /\ passes[1].stage = "upg"
    /\ passes[1].pc = "done"
    /\ stores = {"s1"}
    /\ indexes = {<<"s1", "i1">>}
    /\ \E o \in Op : /\ ops[o].kind = "indexGet"
                     /\ ops[o].status = "fulfilled"
                     /\ ops[o].burst = 1

(* C31: a pass that was fulfilled has opened exactly one session when its  *)
(* check found no upgrade necessary and it ran a data transaction (the     *)
(* check session served the data step), and exactly two when its check     *)
(* found an upgrade necessary (check session, then upgrade session).       *)
C31_SessionsPerPass ==
    \A p \in Pass :
        passes[p].pc = "done" =>
            /\ passes[p].found = "no" /\ passes[p].tx # 0 => passes[p].opens = 1
            /\ passes[p].found = "yes" => passes[p].opens = 2

(* nothing is outstanding that could make the library run again: no flush  *)
(* is scheduled, no open request is queued, no transaction is live         *)
NothingOutstanding ==
    /\ ~inBurst
    /\ ~FlushPending
    /\ openQ = <<>>
    /\ \A t \in DOMAIN txs : txs[t].state # "active"
    /\ \A p \in Pass : passes[p].pc # "chkTx"

(* C32: no session stays open for ever: when nothing is outstanding that   *)
(* could make the library run again, whether the passes succeeded, failed  *)
(* in the necessity check, or had their data transaction fail or abort,    *)
(* no pass holds a session.                                                *)
C32_SessionsAreClosed == NothingOutstanding => SessionsOpen(World) = {}

(* the future of o is as it was *)
FutureKept(o) ==
    /\ ops'[o].status = ops[o].status
    /\ ops'[o].result = ops[o].result
    /\ ops'[o].error = ops[o].error

(* C33: a success event fulfils the pending future of a wrapped request    *)
(* with the request's result; an error event rejects it with the request's *)
(* error, or without one with the error of its transaction, or without     *)
(* that either with the generic error; a future is settled by an event     *)
(* only, and once settled no later event changes it.                       *)
C33_FutureFollowsRequest ==
    [][\A o \in Op :
          LET req == ops'[o].req
              signalled == ops'[o].signals # ops[o].signals
          IN  /\ signalled /\ ops[o].status = "pending" =>
                    /\ ops'[o].event = "success" =>
                          /\ ops'[o].status = "fulfilled"
                          /\ ops'[o].result = req.result
                    /\ ops'[o].event = "error" =>
                          /\ ops'[o].status = "rejected"
                          /\ ops'[o].error =
                                IF req.error # Null THEN req.error
                                ELSE IF /\ req.transaction.present
                                        /\ req.transaction.error # Null
                                     THEN req.transaction.error
                                ELSE "Request failed."
              /\ ~signalled \/ ops[o].status # "pending" => FutureKept(o)]_vars

(* one future was rejected with the error of the transaction, the request  *)
(* reporting none; another was fulfilled and an error event that followed  *)
(* left it fulfilled                                                       *)
C33_Witness ==
    \E a, b \in Op :
        /\ ops[a].status = "rejected"
        /\ ops[a].req.error = Null
        /\ ops[a].error = "AbortError"
        /\ ops[b].status = "fulfilled"
        /\ ops[b].result = 2
        /\ ops[b].signals = 2
        /\ ops[b].event = "error"

(* pass q is between the success of an open request and the close *)
InSession(q) == passes[q].pc \in {"chkTx", "data"}

(* the open request of pass p asks for a version above the stored one, is  *)
(* the next the engine serves, and waits because a session is open on the  *)
(* database                                                                *)
Blocked(p) ==
    /\ openQ # <<>>
    /\ Head(openQ) = p
    /\ passes[p].stage = "upg"
    /\ passes[p].ver > version
    /\ \E q \in Pass : InSession(q)

(* C34: while the upgrade of a pass is blocked by an open session, the     *)
(* pass stays as it is (its open request stays queued, it makes no further *)
(* request and does not fail), the operations queued on its handle stay    *)
(* pending and the stored version stays; and when the engine then serves   *)
(* the request, no session being open any more, it does so with the        *)
(* upgrade, and the closure of every queued operation is invoked in that   *)
(* step.                                                                   *)
C34_BlockedUpgradeStaysPending ==
    [][\A p \in Pass :
          LET queued == Range(ReqsOf(passes[p].handle))
          IN  /\ Blocked(p) =>
                    /\ passes'[p].pc = "open"
                    /\ passes'[p].stage = "upg"
                    /\ passes'[p].ver = passes[p].ver
                    /\ passes'[p].opens = passes[p].opens
                    /\ openQ' # <<>> /\ Head(openQ') = p
                    /\ version' = version
                    /\ \A o \in queued :
                          ops[o].status = "pending" => ops'[o].status = "pending"
              /\ /\ openQ # <<>> /\ Head(openQ) = p
                 /\ passes[p].stage = "upg" /\ passes[p].ver > version
                 /\ passes'[p].pc # "open"
                 => /\ ~Blocked(p)
                    /\ version' = passes[p].ver
                    /\ passes'[p].pc # "failed"
                    /\ \A o \in queued : ops'[o].ran # ops[o].ran]_vars

(* the upgrade of a pass of one handle waits for a session of the other    *)
(* handle, with an operation queued and pending                            *)
C34_Witness ==
    \E p, q \in Pass :
        /\ Blocked(p)
        /\ InSession(q)
        /\ passes[q].handle # passes[p].handle
        /\ \E o \in Range(ReqsOf(passes[p].handle)) : ops[o].status = "pending"

(* C35: a write whose future has been fulfilled is committed: no           *)
(* transaction in which a fulfilled put or add ran is aborted (an abort    *)
(* takes the store back to its contents before the transaction).           *)
C35_FulfilledWriteIsCommitted ==
    \A o \in Op :
        ops[o].kind \in Writes /\ ops[o].status = "fulfilled" =>
            \A t \in ops[o].ran : txs[t].state # "aborted"

(* a flush is scheduled on handle h or a pass of h is under way *)
PassAhead(h) ==
    \/ FlagOf(h)
    \/ \E p \in Pass : passes[p].handle = h /\ passes[p].pc \notin {"done", "failed"}

(* pass p failed after the engine had given it a data transaction, which  *)
(* was then aborted                                                        *)
FailedByAbort(p) ==
    /\ passes[p].pc = "failed"
    /\ passes[p].tx # 0
    /\ txs[passes[p].tx].state = "aborted"

(* pass p failed in the second half of commit() by asking for version 0,   *)
(* after a check session that found nothing necessary and was given the    *)
(* transaction it asked for, if any                                        *)
FailedByVersionZero(p) ==
    /\ passes[p].pc = "failed"
    /\ passes[p].stage = "chk"
    /\ passes[p].found = "no"
    /\ passes[p].missing = {}
    /\ passes[p].tx # 0 => txs[passes[p].tx].state = "committed"

(* the engine has given every pass the sessions and transactions it asked  *)
(* for: no pass has failed in any other way than the two above             *)
Granted ==
    \A p \in Pass :
        passes[p].pc = "failed" => FailedByAbort(p) \/ FailedByVersionZero(p)

(* a step of the library or of an engine that refuses nothing: the end of  *)
(* the caller's burst, a flush, or an engine event                         *)
Progress ==
    \/ EndBurst
    \/ Flush
    \/ Flush2
    \/ OpenSuccess
    \/ OpenUpgrade
    \/ CheckComplete
    \/ Request
    \/ Complete

(* C36: as long as every pass is given its sessions and transactions, the  *)
(* closure of every operation is invoked at most once, an operation is in  *)
(* the queue only while a flush is scheduled or a pass of its handle is    *)
(* under way, the handles never get stuck before they are at rest (a step  *)
(* of the library or the engine is possible until then), and once they are *)
(* at rest the closure of every operation issued has been invoked,         *)
(* whenever it was enqueued.                                               *)
C36_EveryOperationIsRun ==
    Granted =>
        /\ \A o \in Op : Cardinality(ops[o].ran) <= 1
        /\ \A h \in Handles : ReqsOf(h) # <<>> => PassAhead(h)
        /\ ~Quiescent => ENABLED Progress
        /\ Quiescent => \A o \in Op : Ran(o)

(* an operation enqueued while a pass of its handle held its session had   *)
(* its closure invoked once, by a later transaction, and all is at rest    *)
C36_Witness ==
    /\ Quiescent
    /\ Granted
    /\ \E a, b \in Op :
          /\ ops[a].burst < ops[b].burst
          /\ ~ops[b].idleAtIssue
          /\ a \notin ops[b].after
          /\ Cardinality(ops[a].ran) = 1
          /\ Cardinality(ops[b].ran) = 1
          /\ ops[a].ran # ops[b].ran
          /\ ops[b].status = "fulfilled"

(* C37: every cursor scan, openCursor or openKeyCursor, on a store handle  *)
(* or an index handle, is enqueued with mode 'readwrite', and every data   *)
(* transaction against which the closure of a cursor scan was invoked is   *)
(* read-write, whether or not a write was queued with it.                  *)
C37_CursorScansAreReadwrite ==
    /\ \A o \in Op : ops[o].kind \in CursorKinds => ModeOf(ops[o].kind) = "readwrite"
    /\ \A t \in DOMAIN txs :
          (\E o \in InvokedIn(t) : ops[o].kind \in CursorKinds)
          => txs[t].mode = "readwrite"

(* a transaction that served a count, a key cursor on the store and a      *)
(* cursor on the index, and no write, was read-write and has committed     *)
C37_Witness ==
    \E t \in DOMAIN txs :
        /\ txs[t].mode = "readwrite"
        /\ txs[t].state = "committed"
        /\ \A o \in InvokedIn(t) : ops[o].kind \notin Writes
        /\ \E a, b, c \in InvokedIn(t) :
              /\ ops[a].kind = "count"
              /\ ops[b].kind = "keyCursor"
              /\ ops[c].kind = "indexCursor"
              /\ ops[b].status = "fulfilled"
              /\ ops[c].status = "fulfilled"

(* ---- C38 ---- *)
(* the request of the cursor of o is outstanding in a transaction: the     *)
(* first one from openCursor(), every later one from continue()            *)
Outstanding(o) ==
    \E t \in DOMAIN txs : \E i \in DOMAIN txs[t].queue : txs[t].queue[i] = o

NoRepeat(seq) == \A i, j \in DOMAIN seq : i # j => seq[i] # seq[j]

(* C38: a cursor sequence yields no position twice.  Once an element has   *)
(* been yielded, a pull settles (with a further element, with the end of   *)
(* the sequence or with an error) only in a step before which the consumer *)
(* had advanced the cursor, so that a request of the cursor was            *)
(* outstanding; the consumer that pulls without advancing has its one      *)
(* element and a sequence that has not ended.                              *)
C38_PullWaitsForAdvance ==
    [][\A o \in Op : ops[o].kind \in CursorKinds =>
          /\ NoRepeat(ops'[o].seen)
          /\ ops[o].seen # <<>> /\ ops[o].status = "pending"
             /\ (ops'[o].seen # ops[o].seen \/ ops'[o].status # "pending")
             => Outstanding(o)
          /\ ops'[o].kind = "cursorIdle" /\ ops'[o].seen # <<>>
             => Len(ops'[o].seen) = 1 /\ ops'[o].status = "pending"]_vars

(* a consumer pulled without advancing after the first of two entries: the *)
(* pull is pending although its transaction has committed and the pass is  *)
(* over, while a loop that advances saw both entries and ended             *)
C38_Witness ==
    \E o, q \in Op :
        /\ ops[o].kind = "cursorIdle"
        /\ ops[o].seen = <<1>>
        /\ ops[o].status = "pending"
        /\ ops[o].ran # {}
        /\ \A t \in ops[o].ran : txs[t].state = "committed"
        /\ ops[q].kind = "cursor"
        /\ ops[q].seen = <<1, 2>>
        /\ ops[q].status = "fulfilled"
        /\ \A p \in Pass : passes[p].pc = "done"
        /\ SessionsOpen(World) = {}

====
